---- MODULE Spec2Model ----
(***************************************************************************)
(* Structural interface conformance of the `interfaced` package.           *)
(*                                                                         *)
(* The state is the set of classes the interpreter holds (their metaclass, *)
(* declared bases and namespace) and the outcome of the last operation run *)
(* against them.  Two class statements build an interface I (through the   *)
(* Interface metaclass) and a candidate C; the operations are the          *)
(* conformance queries (issubclass, ClassSignature.implements,             *)
(* ClassSignature.contains) and construction of a class.                   *)
(***************************************************************************)
EXTENDS Integers, Sequences, FiniteSets, TLC

VARIABLES classes, result

vars == <<classes, result>>

(***************************************************************************)
(* Bounds of the model.                                                    *)
(***************************************************************************)
\* plain (non-callable, non-property) class attributes take values 1..MaxVal
MaxVal == 1
\* a construction passes 0..MaxArgs positional arguments
MaxArgs == 1

(***************************************************************************)
(* Names and attribute objects.                                            *)
(***************************************************************************)
\* dir(cls) lists names in sorted order; "__init__" sorts before them
AttrOrder == <<"__init__", "bar", "foo">>

AllNames == {AttrOrder[k] : k \in 1..Len(AttrOrder)}

is_dunder(methodname) == methodname \in {"__init__"}

\* return annotations, kept as strings by `from __future__ import annotations`
RetTypes == {"TestInterface", "TestB"}

NoAttr == [kind |-> "absent"]

None == [kind |-> "None"]

\* def name (self, a : int) -> ret, optionally decorated with @default
Func(ret, dflt) ==
    [kind |-> "function", params |-> <<"self", "a">>, ret |-> ret, dflt |-> dflt]

\* the accessor functions a property is built from
Accessor(params) ==
    [kind |-> "function", params |-> params, ret |-> "", dflt |-> FALSE]

\* property(fget, fset, fdel); an accessor left out is None
Property(fget, fset, fdel) ==
    [kind |-> "property", fget |-> fget, fset |-> fset, fdel |-> fdel]

Value(v, dflt) == [kind |-> "value", val |-> v, dflt |-> dflt]

\* the members a class body may give a name
Members ==
    {Func(r, d) : r \in RetTypes, d \in BOOLEAN}
      \cup {Property(Accessor(<<"self">>), None, None),
            Property(Accessor(<<"self">>), Accessor(<<"self", "v">>),
                     Accessor(<<"self">>))}
      \cup {Value(v, d) : v \in 1..MaxVal, d \in BOOLEAN}

\* def __init__ (self) written in a class body
OwnInit == [kind |-> "function", params |-> <<"self">>, ret |-> "", dflt |-> FALSE]

\* object.__init__
ObjectInit == [kind |-> "slot wrapper"]

\* the initializer Interface.__new__ injects: raises TypeError on any call
default_initializer == [kind |-> "default_initializer"]

\* the namespaces (dct) a class statement can pass to the metaclass: each
\* ordinary name absent or one of members, __init__ absent or one of inits
Bodies(inits, members) ==
    {d \in [AllNames -> members \cup inits \cup {NoAttr}] :
        /\ d["__init__"] \in inits \cup {NoAttr}
        /\ \A n \in AllNames \ {"__init__"} : d[n] \in members \cup {NoAttr}}

\* class bodies of the conformance queries: any members, no initializer
SignatureBodies == Bodies({}, Members)

\* class bodies of the construction runs: with or without an initializer
InitBodies == Bodies({OwnInit}, {Func("TestInterface", FALSE)})

(***************************************************************************)
(* Class creation.                                                         *)
(***************************************************************************)
\* Interface.__new__ without the injection (a class that stays instantiable)
InterfaceNew_NoInject(bases, dct) ==
    [defined |-> TRUE, meta |-> "Interface", bases |-> bases, dct |-> dct]

\* Interface.__new__ injecting only into classes that declare no parent
InterfaceNew_RootOnly(bases, dct) ==
    [defined |-> TRUE, meta |-> "Interface", bases |-> bases,
     dct |-> IF dct["__init__"].kind = "absent" /\ bases = <<"object">>
             THEN [dct EXCEPT !["__init__"] = default_initializer]
             ELSE dct]

\* Interface.__new__(cls, name, bases, dct)
InterfaceNew(bases, dct) ==
    [defined |-> TRUE, meta |-> "Interface", bases |-> bases,
     dct |-> IF dct["__init__"].kind = "absent"
             THEN [dct EXCEPT !["__init__"] = default_initializer]
             ELSE dct]

\* type.__new__ for a class that no Interface class is a base of
TypeNew(bases, dct) ==
    [defined |-> TRUE, meta |-> "type", bases |-> bases, dct |-> dct]

Undefined ==
    [defined |-> FALSE, meta |-> "type", bases |-> <<>>,
     dct |-> [n \in AllNames |-> NoAttr]]

ClassIds == {"object", "Mixin1", "Mixin2", "I", "C"}

\* the classes that exist before any class statement runs
Builtins ==
    [c \in ClassIds |->
        CASE c = "object" ->
               [defined |-> TRUE, meta |-> "type", bases |-> <<>>,
                dct |-> [n \in AllNames |->
                            IF n = "__init__" THEN ObjectInit ELSE NoAttr]]
          [] c \in {"Mixin1", "Mixin2"} ->
               TypeNew(<<"object">>, [n \in AllNames |-> NoAttr])
          [] OTHER -> Undefined]

(***************************************************************************)
(* Attribute lookup: getattr(cls, name) and dir(cls).                      *)
(***************************************************************************)
RECURSIVE mro_bases(_, _, _)
\* the bases bs[k..] of a class, each followed by its own bases; object is last
\* in every resolution order and is left out here
mro_bases(cs, bs, k) ==
    IF k > Len(bs) THEN <<>>
    ELSE (IF bs[k] = "object" THEN <<>>
          ELSE <<bs[k]>> \o mro_bases(cs, cs[bs[k]].bases, 1))
         \o mro_bases(cs, bs, k + 1)

\* cls.__mro__
mro(cs, c) ==
    IF c = "object" THEN <<"object">>
    ELSE <<c>> \o mro_bases(cs, cs[c].bases, 1) \o <<"object">>

\* getattr(cls, name): the first namespace of the resolution order holding name
getattr(cs, c, n) ==
    LET order == mro(cs, c)
        hits  == {k \in 1..Len(order) : cs[order[k]].dct[n].kind # "absent"}
    IN  IF hits = {} THEN NoAttr
        ELSE cs[order[CHOOSE k \in hits : \A j \in hits : k <= j]].dct[n]

\* dir(cls): the names cls resolves, sorted
dir(cs, c) ==
    LET present(n) == getattr(cs, c, n).kind # "absent"
    IN  SelectSeq(AttrOrder, present)

\* [getattr(cls, i) for i in dir(cls) if not is_dunder(i)]
get_non_dunder_attrs(cs, c) ==
    LET keep(n) == ~is_dunder(n)
        names   == SelectSeq(dir(cs, c), keep)
    IN  [k \in 1..Len(names) |-> getattr(cs, c, names[k])]

(***************************************************************************)
(* Signature extraction.  A call either returns a value or raises:         *)
(* [exc |-> "none", val |-> v] or [exc |-> "TypeError"].                   *)
(***************************************************************************)
Return(v) == [exc |-> "none", val |-> v]

Raise(e) == [exc |-> e]

\* inspect.signature(obj): raises TypeError when obj is not callable (None)
signature(obj) ==
    IF obj.kind = "function"
    THEN Return([kind |-> "Signature", params |-> obj.params, ret |-> obj.ret])
    ELSE Raise("TypeError")

\* PropertySignature(target); id is the identity of the new object, the class
\* defines no __eq__
PropertySignature(target, id) ==
    LET fget == signature(target.fget)
        fset == signature(target.fset)
        fdel == signature(target.fdel)
    IN  IF fget.exc # "none" \/ fset.exc # "none" \/ fdel.exc # "none"
        THEN Raise("TypeError")
        ELSE Return([kind |-> "PropertySignature", id |-> id,
                     fget |-> fget.val, fset |-> fset.val, fdel |-> fdel.val])

\* universal_signature(obj)
universal_signature(obj, id) ==
    IF obj.kind = "property" THEN PropertySignature(obj, id)
    ELSE IF obj.kind = "function" THEN signature(obj)
    ELSE Return(obj)

\* hasattr(i, "__defaultmethod__")
has_defaultmethod(i) == i.kind \in {"function", "value"} /\ i.dflt

\* ClassSignature(cls); inst is the identity of the new ClassSignature object
ClassSignature(cs, c, inst) ==
    LET attrs == get_non_dunder_attrs(cs, c)
        sigs  == [k \in 1..Len(attrs) |-> universal_signature(attrs[k], <<inst, k>>)]
    IN  IF \E k \in 1..Len(attrs) : sigs[k].exc # "none"
        THEN Raise("TypeError")
        ELSE [exc |-> "none", cls |-> c, attrs |-> attrs,
              signatures |-> [k \in 1..Len(attrs) |-> sigs[k].val],
              default_attrs |-> SelectSeq(attrs, has_defaultmethod)]

(***************************************************************************)
(* Comparison.                                                             *)
(***************************************************************************)
\* a == b as the `in` operator evaluates it, a being an entry of a signatures
\* list: inspect.Signature compares parameters and return annotation, a
\* PropertySignature only equals itself, a plain value compares by value
PyEq(a, b) ==
    CASE a.kind = "Signature" ->
           b.kind = "Signature" /\ a.params = b.params /\ a.ret = b.ret
      [] a.kind = "PropertySignature" ->
           b.kind = "PropertySignature" /\ a.id = b.id
      [] a.kind = "value" -> b.kind = "value" /\ a.val = b.val
      [] OTHER -> FALSE

\* x in seq
In(x, seq) == \E k \in 1..Len(seq) : PyEq(x, seq[k])

\* ClassSignature.bases(self, target)
bases(cs, self, target) ==
    \E k \in 1..Len(cs[self.cls].bases) : cs[self.cls].bases[k] = target.cls

\* ClassSignature.contains(self, cls), both already ClassSignature objects
contains(self, cls) ==
    \A k \in 1..Len(cls.signatures) : In(cls.signatures[k], self.signatures)

\* ClassSignature.implements(self, interface), both ClassSignature objects
implements(cs, self, interface) ==
    IF ~bases(cs, self, interface) THEN contains(self, interface)
    ELSE \A k \in 1..Len(interface.signatures) :
            ~(/\ ~In(interface.signatures[k], self.signatures)
              /\ ~In(interface.signatures[k], interface.default_attrs))

\* str(bool)
BoolStr(b) == IF b THEN "True" ELSE "False"

\* ClassSignature(c).implements(i) called with two types: what it returns or
\* the exception it raises
ImplementsCall(cs, c, i) ==
    LET self      == ClassSignature(cs, c, 1)
        interface == ClassSignature(cs, i, 2)
    IN  IF self.exc # "none" THEN self.exc
        ELSE IF interface.exc # "none" THEN interface.exc
        ELSE BoolStr(implements(cs, self, interface))

\* ClassSignature(c).contains(i) called with two types
ContainsCall(cs, c, i) ==
    LET self  == ClassSignature(cs, c, 1)
        other == ClassSignature(cs, i, 2)
    IN  IF self.exc # "none" THEN self.exc
        ELSE IF other.exc # "none" THEN other.exc
        ELSE BoolStr(contains(self, other))

\* Interface.__subclasscheck__(cls, subclass): super(cls) is an unbound super
\* object, which has no attribute __subclasscheck__
SubclassCheck(cs, cls, subclass) ==
    IF Len(cs[cls].bases) # 1 THEN "AttributeError"
    ELSE ImplementsCall(cs, subclass, cls)

\* cls(*args): type.__call__ runs the initializer the resolution order finds
ConstructCall(cs, c, nargs) ==
    LET init == getattr(cs, c, "__init__")
    IN  CASE init.kind = "default_initializer" -> "TypeError"
          [] init.kind = "function" ->
               IF nargs = Len(init.params) - 1 THEN "instance" ELSE "TypeError"
          [] OTHER -> IF nargs = 0 THEN "instance" ELSE "TypeError"

(***************************************************************************)
(* The state machine.                                                      *)
(***************************************************************************)
NoResult == [op |-> "none", cand |-> "", iface |-> "", nargs |-> 0, outcome |-> ""]

Init ==
    /\ classes = Builtins
    /\ result = NoResult

\* the bases an interface declares: none, or two mix-ins (a composite)
InterfaceBases == {<<"object">>, <<"Mixin1", "Mixin2">>}

\* the bases a candidate declares
CandidateBases == {<<"object">>, <<"I">>, <<"I", "Mixin1">>}

\* class I (*bases, metaclass=Interface) : body
DefineInterface(bodies) ==
    /\ ~classes["I"].defined
    /\ \E bs \in InterfaceBases, dct \in bodies :
          classes' = [classes EXCEPT !["I"] = InterfaceNew(bs, dct)]
    /\ UNCHANGED result

\* class C (*bases) : body -- the metaclass is that of the bases
DefineCandidate(bodies) ==
    /\ classes["I"].defined
    /\ ~classes["C"].defined
    /\ \E bs \in CandidateBases, dct \in bodies :
          classes' = [classes EXCEPT !["C"] =
                         IF \E k \in 1..Len(bs) : classes[bs[k]].meta = "Interface"
                         THEN InterfaceNew(bs, dct)
                         ELSE TypeNew(bs, dct)]
    /\ UNCHANGED result

Ready == classes["I"].defined /\ classes["C"].defined

\* issubclass(C, I)
Issubclass ==
    /\ Ready
    /\ result' = [op |-> "issubclass", cand |-> "C", iface |-> "I", nargs |-> 0,
                  outcome |-> SubclassCheck(classes, "I", "C")]
    /\ UNCHANGED classes

\* ClassSignature(c).implements(i), a class against the interface or itself
Implements ==
    /\ Ready
    /\ \E p \in {<<"C", "I">>, <<"I", "I">>, <<"C", "C">>} :
          result' = [op |-> "implements", cand |-> p[1], iface |-> p[2], nargs |-> 0,
                     outcome |-> ImplementsCall(classes, p[1], p[2])]
    /\ UNCHANGED classes

\* ClassSignature(C).contains(I)
Contains ==
    /\ Ready
    /\ result' = [op |-> "contains", cand |-> "C", iface |-> "I", nargs |-> 0,
                  outcome |-> ContainsCall(classes, "C", "I")]
    /\ UNCHANGED classes

\* c(*args) for the interface or the candidate
Construct ==
    /\ Ready
    /\ \E c \in {"I", "C"}, n \in 0..MaxArgs :
          result' = [op |-> "construct", cand |-> c, iface |-> "", nargs |-> n,
                     outcome |-> ConstructCall(classes, c, n)]
    /\ UNCHANGED classes

\* conformance queries over classes with any members
Next ==
    \/ DefineInterface(SignatureBodies)
    \/ DefineCandidate(SignatureBodies)
    \/ Issubclass
    \/ Implements
    \/ Contains

Spec == Init /\ [][Next]_vars

\* construction of classes with and without an initializer of their own
NextConstruct ==
    \/ DefineInterface(InitBodies)
    \/ DefineCandidate(InitBodies)
    \/ Construct

SpecConstruct == Init /\ [][NextConstruct]_vars

(***************************************************************************)
(* Vocabulary of the properties.                                           *)
(***************************************************************************)
\* the member class c resolves for name n
Member(c, n) == getattr(classes, c, n)

OrdinaryNames == {n \in AllNames : ~is_dunder(n)}

\* c names i among its immediate declared parents
Declares(c, i) == \E k \in 1..Len(classes[c].bases) : classes[c].bases[k] = i

\* the class statement of c wrote an initializer
DefinesInit(c) == classes[c].dct["__init__"].kind = "function"

\* every property of c has a getter, a setter and a deleter
FullAccessors(c) ==
    \A n \in OrdinaryNames :
        Member(c, n).kind = "property"
            => /\ Member(c, n).fget.kind = "function"
               /\ Member(c, n).fset.kind = "function"
               /\ Member(c, n).fdel.kind = "function"

\* every member of c is a method
MethodsOnly(c) ==
    \A n \in OrdinaryNames : Member(c, n).kind \in {"function", "absent"}

\* two accessor functions of a property agree (both left out, or same shape)
SameAccessor(f, g) ==
    /\ f.kind = g.kind
    /\ f.kind = "function" => f.params = g.params /\ f.ret = g.ret

\* member a has a descriptor equal to that of member b: the same parameters and
\* return annotation, the same three accessors, or the same plain value
Matches(a, b) ==
    /\ a.kind = b.kind
    /\ CASE a.kind = "function" -> a.params = b.params /\ a.ret = b.ret
         [] a.kind = "property" ->
              /\ SameAccessor(a.fget, b.fget)
              /\ SameAccessor(a.fset, b.fset)
              /\ SameAccessor(a.fdel, b.fdel)
         [] a.kind = "value" -> a.val = b.val
         [] OTHER -> TRUE

\* every member of i, or every member not tagged default, is matched by the
\* member of c under the same name
MatchesByName(c, i, exemptDefaults) ==
    \A n \in OrdinaryNames :
        (/\ Member(i, n).kind # "absent"
         /\ ~(exemptDefaults /\ has_defaultmethod(Member(i, n))))
            => Matches(Member(c, n), Member(i, n))

(***************************************************************************)
(* Properties.                                                             *)
(***************************************************************************)
\* C1: when C declares I as its only immediate parent and every member of I
\* not tagged default is matched by C's member of that name, ClassSignature(C)
\* .implements(I) is true: default members are exempt, also when C overrides
\* one with another signature.  (The direction of the claim from the members
\* to the result, stated for classes whose members are all methods.)
C1_SubsetRule ==
    (/\ result.op = "implements" /\ result.cand = "C" /\ result.iface = "I"
     /\ classes["C"].bases = <<"I">>
     /\ MethodsOnly("I") /\ MethodsOnly("C")
     /\ MatchesByName("C", "I", TRUE))
        => result.outcome = "True"

\* C2: when C declares I as an immediate parent and C's member with the name
\* of a required function of I has another return type, issubclass(C, I) is
\* not true, whatever else C defines.
C2_WrongReturnType ==
    (/\ result.op = "issubclass"
     /\ Declares("C", "I")
     /\ \E n \in OrdinaryNames :
           /\ Member("I", n).kind = "function" /\ ~Member("I", n).dflt
           /\ Member("C", n).kind = "function"
           /\ Member("C", n).ret # Member("I", n).ret)
        => result.outcome # "True"

\* C3: when C does not declare I and has no member with the name of some
\* default-tagged member of I, issubclass(C, I) is not true.  (Stated for
\* classes whose members are all methods.)
C3_OmittedDefault ==
    (/\ result.op = "issubclass"
     /\ ~Declares("C", "I")
     /\ MethodsOnly("I") /\ MethodsOnly("C")
     /\ \E n \in OrdinaryNames :
           /\ has_defaultmethod(Member("I", n))
           /\ Member("C", n).kind = "absent")
        => result.outcome # "True"

\* C4: when C does not declare I and defines every member of I, default or
\* not, with a matching descriptor, issubclass(C, I) is true, whatever other
\* members C has.  (Stated for interfaces with one declared parent, C7 being
\* about the others, and for properties that have all three accessors.)
C4_IndependentImplementer ==
    (/\ result.op = "issubclass"
     /\ ~Declares("C", "I")
     /\ Len(classes["I"].bases) = 1
     /\ FullAccessors("I") /\ FullAccessors("C")
     /\ MatchesByName("C", "I", FALSE))
        => result.outcome = "True"

\* C5: ClassSignature(T).implements(T) is true for every type T, whatever
\* kinds of members it has.  (Stated for properties that have all three
\* accessors.)
C5_SelfConformance ==
    (/\ result.op = "implements" /\ result.cand = result.iface
     /\ FullAccessors(result.cand))
        => result.outcome = "True"

\* C6: constructing an interface whose body defines no initializer raises
\* TypeError, for any arguments, and yields no instance.
C6_InterfaceNotConstructible ==
    (result.op = "construct" /\ result.cand = "I" /\ ~DefinesInit("I"))
        => result.outcome = "TypeError"

\* C6 witness: an interface without initializer was called with an argument
\* and the call raised
C6_Witness ==
    /\ result.op = "construct" /\ result.cand = "I" /\ ~DefinesInit("I")
    /\ result.nargs = 1
    /\ result.outcome = "TypeError"

\* C7: when I has more than one declared parent, issubclass(C, I) gives what
\* ClassSignature(C).contains(I) gives.
C7_CompositeUsesContains ==
    (result.op = "issubclass" /\ Len(classes["I"].bases) > 1)
        => result.outcome = ContainsCall(classes, "C", "I")

\* C8: a conformance query completes with a boolean and never raises.
C8_QueriesAreTotal ==
    result.op \in {"issubclass", "implements"}
        => result.outcome \in {"True", "False"}

\* C9: ClassSignature(C).contains(I) is true exactly when every member of I
\* is matched by C's member of the same name; an equal descriptor under
\* another name is no match.  (Stated for classes whose members are all
\* methods.)
C9_ContainsByName ==
    (/\ result.op = "contains"
     /\ MethodsOnly("I") /\ MethodsOnly("C"))
        => (result.outcome = "True" <=> MatchesByName("C", "I", FALSE))

====
